---- MODULE Spec2Model ----
(***************************************************************************)
(* phototracks: photo capture-time resolution (photo.py), the lazy cached  *)
(* file collection (collection.py), track records (track.py), the embedded *)
(* pipeline (lib.py, __main__.py) and the global nearest join (app.py).    *)
(*                                                                         *)
(* The specifications share this module,, each over its own variables:     *)
(*   SpecPhoto  Photo.time on one photo file                               *)
(*   SpecColl   iterators over one FileCollection of track files           *)
(*   SpecMain   the embedded pipeline  main()                              *)
(*   SpecApp    locate_photos(tracks, photos)                              *)
(*   SpecWalk   FileCollection over a folder tree: _populate_paths, a pass *)
(*   SpecTrack  one Track: __init__ and time_range                         *)
(*   SpecViews  the views of one PhotoCollection                            *)
(*   SpecLib    get_files_with_extension over a folder tree, as main uses it*)
(***************************************************************************)
EXTENDS Integers, Sequences, FiniteSets, TLC

VARIABLES
    photo,        \* SpecPhoto: the photo file, [stem, exif]
    timeCache,    \* SpecPhoto: the cached_property slot of Photo.time
    lastTime,     \* SpecPhoto: outcome of the last read of Photo.time
    padYear,      \* SpecPhoto: whether strftime of the platform zero-pads %Y
    compressed,   \* SpecPhoto: outcome of Photo.compressed_filename
    decoded,      \* SpecPhoto: outcome of Photo.from_compressed_filename
    files,        \* SpecColl: content of the file behind every path
    cache,        \* SpecColl: FileCollection._cache
    iters,        \* SpecColl: the generators made by __iter__
    ctorCalls,    \* SpecColl: how often path_class(path) ran, per path
    trackFiles,   \* SpecMain: the .gpx files under the tracks folder
    imageFiles,   \* SpecMain: the .NEF files under the images folder
    pc,           \* SpecMain: position of main()
    track_data,   \* SpecMain: main's list of TrackData
    image_data,   \* SpecMain: main's list of ImageData
    written,      \* SpecMain: the track files written by gpx.to_file
    mainExc,      \* SpecMain: the exception that ended main(), if any
    appTracks,    \* SpecApp: the files of the TrackCollection
    appCache,     \* SpecApp: the _cache of the TrackCollection
    appPhotos,    \* SpecApp: the photos of the PhotoCollection
    appResult,    \* SpecApp: what locate_photos returned or raised
    tree,         \* SpecWalk: the files under the root folder, by place
    filter_extensions,  \* SpecWalk: the filter the collection is made with
    walkPaths,    \* SpecWalk: FileCollection._paths
    walkYield,    \* SpecWalk: what one pass over the collection yielded
    trkFile,      \* SpecTrack: the GPX file a Track is made from
    trkAware,     \* SpecTrack: whether the file's sample times name a zone
    utcoffset,    \* SpecTrack: hours the zone of the machine is ahead of UTC
    trk,          \* SpecTrack: the Track record
    trkRange,     \* SpecTrack: outcome of the last read of Track.time_range
    photoColl,    \* SpecViews: the photos of a PhotoCollection, in iteration order
    views,        \* SpecViews: what each view of the collection gave, once read
    libDirs,      \* SpecLib: the folders of the tree main is pointed at
    libFiles,     \* SpecLib: the files of that tree, by place
    libListing    \* SpecLib: what get_files_with_extension yielded to main

photoVars == <<photo, timeCache, lastTime, padYear, compressed, decoded>>
collVars == <<files, cache, iters, ctorCalls>>
mainVars == <<trackFiles, imageFiles, pc, track_data, image_data, written, mainExc>>
appVars == <<appTracks, appCache, appPhotos, appResult>>
walkVars == <<tree, filter_extensions, walkPaths, walkYield>>
trackVars == <<trkFile, trkAware, utcoffset, trk, trkRange>>
viewsVars == <<photoColl, views>>
libVars == <<libDirs, libFiles, libListing>>
vars == <<photoVars, collVars, mainVars, appVars, walkVars, trackVars, viewsVars, libVars>>

\* an action of one specification leaves the other specifications' variables alone
PhotoFrame == UNCHANGED <<collVars, mainVars, appVars, walkVars, trackVars, viewsVars, libVars>>
CollFrame == UNCHANGED <<photoVars, mainVars, appVars, walkVars, trackVars, viewsVars, libVars>>
MainFrame == UNCHANGED <<photoVars, collVars, appVars, walkVars, trackVars, viewsVars, libVars>>
AppFrame == UNCHANGED <<photoVars, collVars, mainVars, walkVars, trackVars, viewsVars, libVars>>
WalkFrame == UNCHANGED <<photoVars, collVars, mainVars, appVars, trackVars, viewsVars, libVars>>
TrackFrame == UNCHANGED <<photoVars, collVars, mainVars, appVars, walkVars, viewsVars, libVars>>
ViewsFrame == UNCHANGED <<photoVars, collVars, mainVars, appVars, walkVars, trackVars, libVars>>
LibFrame == UNCHANGED <<photoVars, collVars, mainVars, appVars, walkVars, trackVars, viewsVars>>

NONE == [kind |-> "None"]
ValueError == [kind |-> "ValueError"]

(***************************************************************************)
(* Bounds.                                                                 *)
(***************************************************************************)
\* longest filename stem, in underscore-delimited tokens
MaxTokens == 2
\* most samples in one track file
MaxPoints == 2
\* generators alive on one collection
MaxIters == 2
\* most files under one root folder
MaxFiles == 2
\* most files in the tree main is pointed at
MaxEntries == 3

\* sequences over S of length lo..hi
SeqsOf(S, lo, hi) == UNION {[1..n -> S] : n \in lo..hi}

Range(s) == {s[i] : i \in 1..Len(s)}

(***************************************************************************)
(* datetime.strptime, as far as the two formats of the program use it.     *)
(* A string is a sequence of characters: 0..9 are the digits, X any other  *)
(* character that is not "_".                                              *)
(***************************************************************************)
X == 10

IsDigits(s) == \A i \in 1..Len(s) : s[i] \in 0..9

RECURSIVE NumOf(_)
NumOf(s) == IF Len(s) = 0 THEN 0
            ELSE 10 * NumOf(SubSeq(s, 1, Len(s) - 1)) + s[Len(s)]

IsLeap(y) == (y % 4 = 0 /\ y % 100 # 0) \/ y % 400 = 0

DaysInMonth(y, m) ==
    IF m = 2 THEN (IF IsLeap(y) THEN 29 ELSE 28)
    ELSE IF m \in {4, 6, 9, 11} THEN 30 ELSE 31

\* datetime(...) accepts the fields
ValidDateTime(y, m, d, H, M, S) ==
    /\ y \in 1..9999
    /\ m \in 1..12
    /\ d \in 1..DaysInMonth(y, m)
    /\ H \in 0..23
    /\ M \in 0..59
    /\ S \in 0..59

\* the directive regexes: %m  1[0-2]|0[1-9]|[1-9]   %d  3[0-1]|[1-2]\d|0[1-9]|[1-9]
\*                        %H  2[0-3]|[0-1]\d|\d      %M  [0-5]\d|\d
\*                        %S  6[0-1]|[0-5]\d|\d
ReMonth(s) == IsDigits(s) /\ Len(s) \in 1..2 /\ NumOf(s) \in 1..12
              /\ (Len(s) = 2 \/ s[1] # 0)
ReDay(s) == IsDigits(s) /\ Len(s) \in 1..2 /\ NumOf(s) \in 1..31
ReHour(s) == IsDigits(s) /\ Len(s) \in 1..2 /\ NumOf(s) \in 0..23
ReMinute(s) == IsDigits(s) /\ Len(s) \in 1..2 /\ NumOf(s) \in 0..59
ReSecond(s) == IsDigits(s) /\ Len(s) \in 1..2 /\ NumOf(s) \in 0..61

Take(s, n) == SubSeq(s, 1, n)
Drop(s, n) == SubSeq(s, n + 1, Len(s))

\* %y: two digits, 69..99 are 19xx and 00..68 are 20xx
YearOf2(s) == IF NumOf(s) >= 69 THEN 1900 + NumOf(s) ELSE 2000 + NumOf(s)

\* "%y%m%d" against a token that "_" follows: the regex backtracks to the first
\* month alternative (two characters before one) after which %d takes the rest.
DateSplits(b0) ==
    IF Len(b0) < 3 \/ ~IsDigits(Take(b0, 2)) THEN <<>>
    ELSE LET r == Drop(b0, 2)
             two == IF Len(r) >= 2 /\ ReMonth(Take(r, 2)) /\ ReDay(Drop(r, 2))
                    THEN <<[m |-> NumOf(Take(r, 2)), d |-> NumOf(Drop(r, 2))]>>
                    ELSE <<>>
             one == IF ReMonth(Take(r, 1)) /\ ReDay(Drop(r, 1))
                    THEN <<[m |-> NumOf(Take(r, 1)), d |-> NumOf(Drop(r, 1))]>>
                    ELSE <<>>
         IN  two \o one

\* "%H%M" at the end of the format: the first match in the regex's order of
\* alternatives, which need not reach the end of the string
TimeSplits(b1) ==
    LET try(h, m) == IF Len(b1) >= h + m /\ ReHour(Take(b1, h))
                        /\ ReMinute(SubSeq(b1, h + 1, h + m))
                     THEN <<[H |-> NumOf(Take(b1, h)),
                             M |-> NumOf(SubSeq(b1, h + 1, h + m)),
                             end |-> h + m]>>
                     ELSE <<>>
        \* 2[0-3]|[0-1]\d before \d ; [0-5]\d before \d
    IN  try(2, 2) \o try(2, 1) \o try(1, 2) \o try(1, 1)

\* datetime.strptime(f"{b0}_{b1}", "%y%m%d_%H%M"): a naive datetime or "ValueError"
StrptimeFilename(b0, b1) ==
    LET ds == DateSplits(b0)
        ts == TimeSplits(b1)
    IN  IF ds = <<>> \/ ts = <<>> THEN ValueError
        ELSE IF ts[1].end # Len(b1) THEN ValueError     \* unconverted data remains
        ELSE LET y == YearOf2(Take(b0, 2)) IN
             IF ValidDateTime(y, ds[1].m, ds[1].d, ts[1].H, ts[1].M, 0)
             THEN [kind |-> "naive", Y |-> y, m |-> ds[1].m, d |-> ds[1].d,
                   H |-> ts[1].H, M |-> ts[1].M, S |-> 0]
             ELSE ValueError

\* An EXIF tag value is [sep, f]: sep says whether the separators of
\* "%Y:%m:%d %H:%M:%S" are in place, f holds the six fields between them.
StrptimeExif(tag) ==
    LET f == tag.f IN
    IF ~tag.sep THEN ValueError
    ELSE IF ~(IsDigits(f[1]) /\ Len(f[1]) = 4 /\ ReMonth(f[2]) /\ ReDay(f[3])
              /\ ReHour(f[4]) /\ ReMinute(f[5]) /\ ReSecond(f[6]))
    THEN ValueError
    ELSE IF ValidDateTime(NumOf(f[1]), NumOf(f[2]), NumOf(f[3]),
                          NumOf(f[4]), NumOf(f[5]), NumOf(f[6]))
    THEN [kind |-> "naive", Y |-> NumOf(f[1]), m |-> NumOf(f[2]), d |-> NumOf(f[3]),
          H |-> NumOf(f[4]), M |-> NumOf(f[5]), S |-> NumOf(f[6])]
    ELSE ValueError

local_timezone == "Europe/Madrid"

\* mutant: the naive value is taken as UTC and converted to the zone (winter
\* offset, one hour)
ReplaceTz_Astimezone(dt) == [kind |-> "time", Y |-> dt.Y, m |-> dt.m, d |-> dt.d,
                             H |-> (dt.H + 1) % 24, M |-> dt.M, S |-> dt.S,
                             tz |-> local_timezone]

\* dt.replace(tzinfo=local_timezone): the wall-clock fields are kept
ReplaceTz(dt) == [kind |-> "time", Y |-> dt.Y, m |-> dt.m, d |-> dt.d,
                  H |-> dt.H, M |-> dt.M, S |-> dt.S, tz |-> local_timezone]

(***************************************************************************)
(* Photo files.                                                            *)
(***************************************************************************)
\* the tokens a stem is made of: 250126, 1335, 25126 (five digits), 251301
\* (month 13), 250230 (30 February), 2400 (hour 24), DSC, and the empty token
Tokens == { <<2,5,0,1,2,6>>, <<1,3,3,5>>, <<2,5,1,2,6>>, <<2,5,1,3,0,1>>,
            <<2,5,0,2,3,0>>, <<2,4,0,0>>, <<X,X,X>>, <<>> }

\* str.split("_") of a stem: one token at least
Stems == SeqsOf(Tokens, 1, MaxTokens)

\* "2025:01:26 13:35:10", "2024:12:31 23:59:59", "0999:01:01 00:00:00", the
\* unset clock "0000:00:00 00:00:00", and text that is no date
TagValues ==
    { [sep |-> TRUE, f |-> <<<<2,0,2,5>>, <<0,1>>, <<2,6>>, <<1,3>>, <<3,5>>, <<1,0>>>>],
      [sep |-> TRUE, f |-> <<<<0,9,9,9>>, <<0,1>>, <<0,1>>, <<0,0>>, <<0,0>>, <<0,0>>>>],
      [sep |-> TRUE, f |-> <<<<2,0,2,4>>, <<1,2>>, <<3,1>>, <<2,3>>, <<5,9>>, <<5,9>>>>],
      [sep |-> TRUE, f |-> <<<<0,0,0,0>>, <<0,0>>, <<0,0>>, <<0,0>>, <<0,0>>, <<0,0>>>>],
      [sep |-> FALSE, f |-> <<<<X>>, <<>>, <<>>, <<>>, <<>>, <<>>>>] }

\* what exifread.process_file(f)["Image DateTime"] does on the file
ExifStates == {[kind |-> "ExifNotFound"], [kind |-> "InvalidExif"],
               [kind |-> "KeyError"]}
              \cup {[kind |-> "tag", value |-> v] : v \in TagValues}

PhotoFiles == [stem : Stems, exif : ExifStates]

\* the inner try of Photo.time: the time from the filename, or None
FilenameTime(stem) ==
    IF Len(stem) < 2 THEN NONE                       \* IndexError
    ELSE LET dt == StrptimeFilename(stem[1], stem[2]) IN
         IF dt = ValueError THEN NONE ELSE ReplaceTz(dt)

\* mutant: the filename is tried first and the tag only after it failed
PhotoTimeCompute_FilenameFirst(p) ==
    IF FilenameTime(p.stem) # NONE
    THEN [kind |-> "return", value |-> FilenameTime(p.stem)]
    ELSE IF p.exif.kind = "tag" /\ StrptimeExif(p.exif.value) # ValueError
    THEN [kind |-> "return", value |-> ReplaceTz(StrptimeExif(p.exif.value))]
    ELSE [kind |-> "return", value |-> NONE]

\* Photo.time computed on the file: [kind |-> "return", value] or
\* [kind |-> "raise", value |-> ValueError]
PhotoTimeCompute(p) ==
    IF p.exif.kind = "tag"
    THEN LET dt == StrptimeExif(p.exif.value) IN
         IF dt = ValueError
         THEN [kind |-> "raise", value |-> ValueError]     \* not in the except clause
         ELSE [kind |-> "return", value |-> ReplaceTz(dt)]
    ELSE [kind |-> "return", value |-> FilenameTime(p.stem)]

NoPhoto == [stem |-> <<>>, exif |-> [kind |-> "none"]]

PhotoInit ==
    /\ photo \in PhotoFiles
    /\ timeCache = [kind |-> "unset"]
    /\ lastTime = [kind |-> "unread"]
    /\ padYear \in BOOLEAN
    /\ compressed = [kind |-> "unread"]
    /\ decoded = [kind |-> "unread"]

PhotoIdle ==
    /\ photo = NoPhoto
    /\ timeCache = [kind |-> "unset"]
    /\ lastTime = [kind |-> "unread"]
    /\ padYear = TRUE
    /\ compressed = [kind |-> "unread"]
    /\ decoded = [kind |-> "unread"]

\* first read of the cached_property: compute, store what was returned
TimeFirstRead ==
    /\ timeCache.kind = "unset"
    /\ LET r == PhotoTimeCompute(photo) IN
       /\ lastTime' = r
       /\ timeCache' = IF r.kind = "return"
                      THEN [kind |-> "set", value |-> r.value]
                      ELSE [kind |-> "unset"]
    /\ UNCHANGED <<photo, padYear, compressed, decoded>>
    /\ PhotoFrame

\* later reads return the stored value
TimeCachedRead ==
    /\ timeCache.kind = "set"
    /\ lastTime' = [kind |-> "return", value |-> timeCache.value]
    /\ UNCHANGED <<photo, timeCache, padYear, compressed, decoded>>
    /\ PhotoFrame

\* digits of a number, most significant first (no digit for 0)
RECURSIVE Digits(_)
Digits(n) == IF n = 0 THEN <<>> ELSE Append(Digits(n \div 10), n % 10)

Pad2(n) == <<n \div 10, n % 10>>

\* %Y of strftime: four digits, but for a year below 1000 the C library of the
\* platform decides whether the leading zeros are written
FormatYear(y, pad) ==
    IF y >= 1000 THEN Digits(y)
    ELSE IF pad THEN <<0>> \o Pad2(y \div 10) \o <<y % 10>>
    ELSE Digits(y)

\* time.strftime("%Y%m%d_%H%M%S"): the text before and the text after the "_"
Strftime(t, pad) ==
    [date |-> FormatYear(t.Y, pad) \o Pad2(t.m) \o Pad2(t.d),
     time |-> Pad2(t.H) \o Pad2(t.M) \o Pad2(t.S)]

\* "%H%M%S" at the end of the format: the first match in the regex's order of
\* alternatives (two characters before one, for each directive)
TimeSplits3(w) ==
    LET try(h, m, c) ==
            IF /\ Len(w) >= h + m + c
               /\ ReHour(Take(w, h))
               /\ ReMinute(SubSeq(w, h + 1, h + m))
               /\ ReSecond(SubSeq(w, h + m + 1, h + m + c))
            THEN <<[H |-> NumOf(Take(w, h)), M |-> NumOf(SubSeq(w, h + 1, h + m)),
                    S |-> NumOf(SubSeq(w, h + m + 1, h + m + c)), end |-> h + m + c]>>
            ELSE <<>>
    IN  try(2, 2, 2) \o try(2, 2, 1) \o try(2, 1, 2) \o try(2, 1, 1)
        \o try(1, 2, 2) \o try(1, 2, 1) \o try(1, 1, 2) \o try(1, 1, 1)

\* datetime.strptime(text, "%Y%m%d_%H%M%S"): %Y takes four digits, %m and %d
\* split the rest of the text before "_" as they do after %y
StrptimeCompact(text) ==
    IF Len(text.date) < 4 \/ ~IsDigits(Take(text.date, 4)) THEN ValueError
    ELSE LET ds == DateSplits(Drop(text.date, 2))
             ts == TimeSplits3(text.time)
         IN  IF ds = <<>> \/ ts = <<>> THEN ValueError
             ELSE IF ts[1].end # Len(text.time) THEN ValueError
             ELSE LET y == NumOf(Take(text.date, 4)) IN
                  IF ValidDateTime(y, ds[1].m, ds[1].d, ts[1].H, ts[1].M, ts[1].S)
                  THEN [kind |-> "naive", Y |-> y, m |-> ds[1].m, d |-> ds[1].d,
                        H |-> ts[1].H, M |-> ts[1].M, S |-> ts[1].S]
                  ELSE ValueError

\* b64encode(gzip.compress(json.dumps(data).encode())): lossless, undone by
\* b64decode, gzip.decompress and json.loads
Encode(data) == [kind |-> "b64gz", data |-> data]

\* Photo.compressed_filename on a photo whose time is t
CompressedOf(p, t, pad) ==
    IF t = NONE THEN [kind |-> "stem", stem |-> p.stem]
    ELSE Encode([time |-> Strftime(t, pad), path |-> p.stem])

\* Photo.from_compressed_filename: every exception becomes ValueError
FromCompressed(c) ==
    IF c.kind # "b64gz" THEN [kind |-> "raise", value |-> ValueError]
    ELSE LET dt == StrptimeCompact(c.data.time) IN
         IF dt = ValueError THEN [kind |-> "raise", value |-> ValueError]
         ELSE [kind |-> "return", time |-> ReplaceTz(dt), path |-> c.data.path]

\* photo.compressed_filename: reads self.time, through the cached_property
CompressedFilename ==
    /\ compressed.kind = "unread"
    /\ LET r == IF timeCache.kind = "set"
                THEN [kind |-> "return", value |-> timeCache.value]
                ELSE PhotoTimeCompute(photo)
       IN  /\ lastTime' = r
           /\ IF r.kind = "return"
              THEN /\ timeCache' = [kind |-> "set", value |-> r.value]
                   /\ compressed' = [kind |-> "return",
                                     value |-> CompressedOf(photo, r.value, padYear)]
              ELSE /\ UNCHANGED timeCache
                   /\ compressed' = [kind |-> "raise", value |-> r.value]
    /\ UNCHANGED <<photo, padYear, decoded>>
    /\ PhotoFrame

\* Photo.from_compressed_filename(photo.compressed_filename)
FromCompressedFilename ==
    /\ compressed.kind = "return"
    /\ decoded.kind = "unread"
    /\ decoded' = FromCompressed(compressed.value)
    /\ UNCHANGED <<photo, timeCache, lastTime, padYear, compressed>>
    /\ PhotoFrame

PhotoNext ==
    \/ TimeFirstRead
    \/ TimeCachedRead
    \/ CompressedFilename
    \/ FromCompressedFilename

(***************************************************************************)
(* Idle values of the other specifications' variables.                     *)
(***************************************************************************)
CollIdle ==
    /\ files = <<>>
    /\ cache = <<>>
    /\ iters = <<>>
    /\ ctorCalls = <<>>

MainIdle ==
    /\ trackFiles = <<>>
    /\ imageFiles = <<>>
    /\ pc = [at |-> "idle", k |-> 0]
    /\ track_data = <<>>
    /\ image_data = <<>>
    /\ written = <<>>
    /\ mainExc = [kind |-> "none"]

AppIdle ==
    /\ appTracks = <<>>
    /\ appCache = <<>>
    /\ appPhotos = <<>>
    /\ appResult = [kind |-> "idle"]

WalkIdle ==
    /\ tree = <<>>
    /\ filter_extensions = NONE
    /\ walkPaths = [kind |-> "unset"]
    /\ walkYield = <<>>

TrackIdle ==
    /\ trkFile = NONE
    /\ trkAware = TRUE
    /\ utcoffset = 0
    /\ trk = [kind |-> "unset"]
    /\ trkRange = [kind |-> "unread"]

ViewsIdle ==
    /\ photoColl = <<>>
    /\ views = <<>>

LibIdle ==
    /\ libDirs = {}
    /\ libFiles = {}
    /\ libListing = [kind |-> "unset"]

\* the state after construction: the other components are not in use
InitPhoto == PhotoInit /\ CollIdle /\ MainIdle /\ AppIdle /\ WalkIdle /\ TrackIdle /\ ViewsIdle /\ LibIdle

SpecPhoto ==
    /\ InitPhoto
    /\ [][PhotoNext]_vars

(***************************************************************************)
(* Claims about Photo.time (SpecPhoto).                                    *)
(***************************************************************************)
\* the filename follows the strict convention: six digits, "_", four digits,
\* naming a date and a time that exist
StrictStem(stem) ==
    /\ Len(stem) >= 2
    /\ Len(stem[1]) = 6 /\ IsDigits(stem[1])
    /\ Len(stem[2]) = 4 /\ IsDigits(stem[2])
    /\ ValidDateTime(2000 + 10 * stem[1][1] + stem[1][2],
                     10 * stem[1][3] + stem[1][4], 10 * stem[1][5] + stem[1][6],
                     10 * stem[2][1] + stem[2][2], 10 * stem[2][3] + stem[2][4], 0)

\* the convention's literal value, read off digit by digit
LiteralTime(stem) ==
    [kind |-> "time", Y |-> 2000 + 10 * stem[1][1] + stem[1][2],
     m |-> 10 * stem[1][3] + stem[1][4], d |-> 10 * stem[1][5] + stem[1][6],
     H |-> 10 * stem[2][1] + stem[2][2], M |-> 10 * stem[2][3] + stem[2][4],
     S |-> 0, tz |-> "Europe/Madrid"]

TimeWasRead == lastTime.kind # "unread"

TagAbsent == photo.exif.kind \in {"ExifNotFound", "InvalidExif", "KeyError"}

\* C1 as stated: for a photo whose filename follows the strict convention, the
\* time Photo.time resolves is the filename's literal date/time in Europe/Madrid
\* whatever the EXIF tag holds.
C1_FilenameAlwaysWins ==
    (TimeWasRead /\ StrictStem(photo.stem) /\ lastTime.kind = "return")
        => lastTime.value = LiteralTime(photo.stem)

\* C1 amended: for a photo whose filename follows the strict convention,
\* Photo.time is the filename's literal date/time in Europe/Madrid when the file
\* has no 'Image DateTime' tag (no EXIF, invalid EXIF, tag missing); when the tag
\* is present and parses, Photo.time is the tag's date/time, not the filename's.
C1_FilenameWhenTagAbsent ==
    (TimeWasRead /\ StrictStem(photo.stem))
        => /\ TagAbsent
              => lastTime = [kind |-> "return", value |-> LiteralTime(photo.stem)]
           /\ (photo.exif.kind = "tag" /\ StrptimeExif(photo.exif.value) # ValueError)
              => /\ lastTime.kind = "return"
                 /\ lastTime.value.kind = "time"
                 /\ lastTime.value.Y = NumOf(photo.exif.value.f[1])
                 /\ lastTime.value.S = NumOf(photo.exif.value.f[6])

\* C1 witness: 250126_1335 without a tag, resolved to 2025-01-26 13:35:00
C1_Witness ==
    /\ photo.stem = << <<2,5,0,1,2,6>>, <<1,3,3,5>> >>
    /\ photo.exif.kind = "KeyError"
    /\ lastTime = [kind |-> "return", value |->
          [kind |-> "time", Y |-> 2025, m |-> 1, d |-> 26, H |-> 13, M |-> 35,
           S |-> 0, tz |-> "Europe/Madrid"]]

\* C2 as stated: when neither the filename nor the EXIF tag yields a time (no
\* EXIF, tag missing, tag malformed, filename malformed), Photo.time returns
\* None and does not raise.
C2_NoneWithoutRaising ==
    (/\ TimeWasRead
     /\ FilenameTime(photo.stem) = NONE
     /\ (TagAbsent \/ StrptimeExif(photo.exif.value) = ValueError))
        => lastTime = [kind |-> "return", value |-> NONE]

(***************************************************************************)
(* Track files and Track records (track.py).                               *)
(* A track file is [ok, ntrk, nseg, timeCol, points]: ok says whether the  *)
(* file decodes, ntrk and nseg count its tracks and the segments of a      *)
(* track, timeCol says whether the track_points layer has a time column,   *)
(* points are the rows of that layer (the points of every track and every  *)
(* segment, in file order). A point is [timed, time].                      *)
(***************************************************************************)
Pt(t) == [timed |-> TRUE, time |-> t]
NaT == [timed |-> FALSE, time |-> 0]

TrackFile(ok, ntrk, nseg, timeCol, points) ==
    [ok |-> ok, ntrk |-> ntrk, nseg |-> nseg, timeCol |-> timeCol, points |-> points]

\* mutant: the body of __init__ without its try/except, a decoding error
\* leaves the constructor as it is
TrackInit_NoWrap(f) ==
    IF ~f.ok THEN [kind |-> "DataSourceError"]
    ELSE IF f.points = <<>> THEN ValueError
    ELSE IF ~f.timeCol THEN ValueError
    ELSE [kind |-> "Track", gdf |-> f.points]

\* mutant: __init__ also demands a sample with a time
TrackInit_RequireTimed(f) ==
    IF ~f.ok \/ f.points = <<>> \/ ~f.timeCol THEN ValueError
    ELSE IF \A i \in 1..Len(f.points) : ~f.points[i].timed THEN ValueError
    ELSE [kind |-> "Track", gdf |-> f.points]

\* Track.__init__: the record, or ValueError
TrackInit(f) ==
    IF ~f.ok THEN ValueError                 \* any exception of read_file, re-raised
    ELSE IF f.points = <<>> THEN ValueError  \* gdf.empty
    ELSE IF ~f.timeCol THEN ValueError       \* no "time" column
    ELSE [kind |-> "Track", gdf |-> f.points]

ValidTimes(gdf) == {gdf[i].time : i \in {j \in 1..Len(gdf) : gdf[j].timed}}

SetMin(S) == CHOOSE x \in S : \A y \in S : x <= y
SetMax(S) == CHOOSE x \in S : \A y \in S : x >= y

\* pandas Timestamp.timestamp(): seconds since the epoch; a value without a
\* zone is read as UTC. Times are counted in hours here.
Timestamp(t, aware) == t

\* datetime.fromtimestamp(ts, tz): with tz None the local time of the machine,
\* without a zone; else the same instant in tz
FromTimestamp(ts, aware, offset) == IF aware THEN ts ELSE ts + offset

\* Track.time_range lines 43-61 on samples whose times do or do not name a
\* zone, on a machine offset hours ahead of UTC
TimeRangeAt(gdf, aware, offset) ==
    IF ValidTimes(gdf) = {} THEN ValueError
    ELSE [kind |-> "range",
          start |-> FromTimestamp(Timestamp(SetMin(ValidTimes(gdf)), aware), aware, offset),
          end |-> FromTimestamp(Timestamp(SetMax(ValidTimes(gdf)), aware), aware, offset)]

\* Track.time_range of a track whose sample times name a zone: (min, max) of
\* the non-null times, or ValueError
TimeRange(track) == TimeRangeAt(track.gdf, TRUE, 0)

(***************************************************************************)
(* FileCollection (collection.py), here a TrackCollection.                 *)
(***************************************************************************)
\* self._paths in the order a for loop visits the set; every assignment of file
\* contents to the paths is an initial state
PathOrder == <<"a.gpx", "b.gpx">>
Paths == Range(PathOrder)

\* the files a path may hold in SpecColl: a track of two timed samples, a track
\* whose only sample has no time, a track without samples, a file of two tracks,
\* a track of two segments, and a file that does not decode
CollFileKinds ==
    { TrackFile(TRUE, 1, 1, TRUE, <<Pt(0), Pt(1)>>),
      TrackFile(TRUE, 1, 1, TRUE, <<NaT>>),
      TrackFile(TRUE, 1, 1, TRUE, <<>>),
      TrackFile(TRUE, 2, 1, TRUE, <<Pt(0), Pt(1)>>),
      TrackFile(TRUE, 1, 2, TRUE, <<Pt(0), Pt(1)>>),
      TrackFile(FALSE, 1, 1, TRUE, <<>>) }

IterIds == 1..MaxIters

NoIter == [status |-> "none", pos |-> 1, yielded |-> <<>>, built |-> {},
           after |-> {}, range |-> [kind |-> "unread"]]

CollInit ==
    /\ files \in [Paths -> CollFileKinds]
    /\ cache = <<>>
    /\ iters = [i \in IterIds |-> NoIter]
    /\ ctorCalls = [p \in Paths |-> 0]

\* mutant: the cache is never consulted
CacheMiss_Always(c, path) == TRUE

\* line 61: path not in self._cache
CacheMiss(c, path) == path \notin DOMAIN c

\* mutant: the failure marker is not stored
StoreExcluded_Forget(c, path) == c

\* line 68: self._cache[path] = None
StoreExcluded(c, path) == c @@ (path :> NONE)

\* line 63: self._cache[path] = path_class(path)
StoreRecord(c, path, rec) == c @@ (path :> rec)

\* the record path_class(path) makes: the nth object constructed for the path
NewRecord(path, n, made) == [kind |-> "Track", path |-> path, oid |-> n, gdf |-> made.gdf]

\* One next() on a generator of __iter__: the loop runs from position j until it
\* yields, ends, or an exception leaves it. st is [cache, calls, built].
RECURSIVE Advance(_, _, _, _)
Advance(order, f, st, j) ==
    IF j > Len(order)
    THEN [cache |-> st.cache, calls |-> st.calls, built |-> st.built,
          pos |-> j, out |-> [kind |-> "StopIteration"]]
    ELSE LET path == order[j] IN
         IF CacheMiss(st.cache, path)
         THEN LET made == TrackInit(f[path])
                  calls2 == [st.calls EXCEPT ![path] = @ + 1]
                  built2 == st.built \cup {path}
              IN  IF made.kind = "Track"
                  THEN LET rec == NewRecord(path, calls2[path], made) IN
                       [cache |-> StoreRecord(st.cache, path, rec), calls |-> calls2,
                        built |-> built2, pos |-> j + 1,
                        out |-> [kind |-> "yield", item |-> rec]]
                  ELSE IF made = ValueError
                  THEN Advance(order, f, [cache |-> StoreExcluded(st.cache, path),
                                   calls |-> calls2, built |-> built2], j + 1)
                  ELSE [cache |-> st.cache, calls |-> calls2, built |-> built2,
                        pos |-> j, out |-> [kind |-> "raise", value |-> made]]
         ELSE IF st.cache[path] # NONE
         THEN [cache |-> st.cache, calls |-> st.calls, built |-> st.built,
               pos |-> j + 1, out |-> [kind |-> "yield", item |-> st.cache[path]]]
         ELSE Advance(order, f, st, j + 1)

\* iter(collection): a generator object, nothing of its body has run
\* (generators are numbered in the order they are made)
IterCreate(i) ==
    /\ iters[i].status = "none"
    /\ \A k \in IterIds : k < i => iters[k].status # "none"
    /\ iters' = [iters EXCEPT ![i] =
                   [NoIter EXCEPT !.status = "running",
                                  !.after = {k \in IterIds : iters[k].status = "done"}]]
    /\ UNCHANGED <<files, cache, ctorCalls>>
    /\ CollFrame

\* next(generator)
IterNext(i) ==
    /\ iters[i].status = "running"
    /\ LET r == Advance(PathOrder, files, [cache |-> cache, calls |-> ctorCalls,
                                built |-> iters[i].built], iters[i].pos)
       IN  /\ cache' = r.cache
           /\ ctorCalls' = r.calls
           /\ iters' = [iters EXCEPT ![i] =
                 [status |-> CASE r.out.kind = "yield" -> "running"
                               [] r.out.kind = "StopIteration" -> "done"
                               [] OTHER -> "raised",
                  pos |-> r.pos,
                  yielded |-> IF r.out.kind = "yield"
                              THEN Append(@.yielded, r.out.item) ELSE @.yielded,
                  built |-> r.built,
                  after |-> @.after,
                  range |-> [kind |-> "unread"]]]
    /\ UNCHANGED files
    /\ CollFrame

\* the loop body reads time_range of the track it was just handed
ReadTimeRange(i) ==
    /\ iters[i].status = "running"
    /\ iters[i].yielded # <<>>
    /\ iters[i].range.kind = "unread"
    /\ iters' = [iters EXCEPT ![i].range =
                    TimeRange(iters[i].yielded[Len(iters[i].yielded)])]
    /\ UNCHANGED <<files, cache, ctorCalls>>
    /\ CollFrame

\* the caller leaves its loop before the generator is exhausted
IterAbandon(i) ==
    /\ iters[i].status = "running"
    /\ iters' = [iters EXCEPT ![i].status = "closed"]
    /\ UNCHANGED <<files, cache, ctorCalls>>
    /\ CollFrame

CollNext ==
    \E i \in IterIds :
        \/ IterCreate(i)
        \/ IterNext(i)
        \/ ReadTimeRange(i)
        \/ IterAbandon(i)

\* the state after construction: the other components are not in use
InitColl == CollInit /\ PhotoIdle /\ MainIdle /\ AppIdle /\ WalkIdle /\ TrackIdle /\ ViewsIdle /\ LibIdle

SpecColl ==
    /\ InitColl
    /\ [][CollNext]_vars

(***************************************************************************)
(* Claims about FileCollection and Track (SpecColl).                       *)
(***************************************************************************)
YieldedPaths(i) == {iters[i].yielded[k].path : k \in 1..Len(iters[i].yielded)}

Excluded(p) == p \in DOMAIN cache /\ cache[p] = NONE

\* the file gives Track.__init__ nothing to build a record from
Unreadable(f) == ~f.ok \/ f.points = <<>> \/ ~f.timeCol

\* C3: a pass made after another pass has run to completion yields the same
\* records (the cached objects, one per path that is not excluded) and invokes
\* the record constructor for no path.
C3_SecondPassIdempotent ==
    \A i \in IterIds : \A j \in iters[i].after :
        /\ iters[i].built = {}
        /\ iters[i].status = "done"
              => /\ Range(iters[i].yielded) = Range(iters[j].yielded)
                 /\ Range(iters[i].yielded) = {cache[p] : p \in {q \in Paths : ~Excluded(q)}}
                 /\ Len(iters[i].yielded) = Cardinality({q \in Paths : ~Excluded(q)})

\* C3 witness: a second pass completed after a first one, over a collection with
\* an excluded path and a resolved path
C3_Witness ==
    /\ iters[2].status = "done" /\ 1 \in iters[2].after
    /\ iters[2].yielded # <<>>
    /\ \E p \in Paths : Excluded(p)

\* C4: no generator is ended by an exception, and a pass that ran to the end has
\* marked every failing path excluded, yielded none of them, and yielded every
\* path whose construction succeeds exactly once.
C4_BadFileNeverAborts ==
    \A i \in IterIds :
        /\ iters[i].status # "raised"
        /\ iters[i].status = "done"
              => /\ iters[i].pos = Len(PathOrder) + 1
                 /\ \A p \in Paths :
                       IF Unreadable(files[p])
                       THEN Excluded(p) /\ p \notin YieldedPaths(i)
                       ELSE Cardinality({k \in 1..Len(iters[i].yielded) :
                                            iters[i].yielded[k].path = p}) = 1

\* C4 witness: a completed pass whose first path failed and whose later path was
\* yielded
C4_Witness ==
    /\ iters[1].status = "done"
    /\ Unreadable(files["a.gpx"]) /\ Excluded("a.gpx")
    /\ "b.gpx" \in YieldedPaths(1)

\* C5 as stated: a file with more than one track, or a track with more than one
\* segment, fails Track's constructor and is excluded from its collection.
C5_MultiTrackRejected ==
    \A p \in DOMAIN cache :
        (files[p].ntrk > 1 \/ files[p].nseg > 1) => cache[p] = NONE

NoTimedSample(points) == \A k \in 1..Len(points) : ~points[k].timed

\* C6 as stated: a track file in which no sample carries a time fails at
\* construction and is excluded from its collection.
C6_UntimedRejectedAtConstruction ==
    \A p \in DOMAIN cache :
        (files[p].ok /\ NoTimedSample(files[p].points)) => cache[p] = NONE

\* C6 amended: a decodable track file that has samples, none of them with a time,
\* is constructed, cached and yielded; the ValueError is raised when time_range
\* of the record is read. A file without any sample fails at construction and is
\* excluded.
C6_UntimedFailsAtTimeRange ==
    /\ \A p \in DOMAIN cache :
          (files[p].ok /\ files[p].timeCol /\ NoTimedSample(files[p].points))
             => IF files[p].points = <<>> THEN cache[p] = NONE
                ELSE cache[p].kind = "Track"
    /\ \A i \in IterIds :
          (iters[i].range.kind # "unread")
             => LET item == iters[i].yielded[Len(iters[i].yielded)] IN
                (iters[i].range = ValueError) <=> NoTimedSample(item.gdf)

\* C6 witness: a track whose only sample has no time was yielded, and reading
\* its time_range raised ValueError
C6_Witness ==
    \E i \in IterIds :
        /\ iters[i].yielded # <<>>
        /\ iters[i].yielded[Len(iters[i].yielded)].gdf = <<NaT>>
        /\ iters[i].range = ValueError

\* every record any generator has handed out, with the path it was handed out for
AllYields ==
    UNION {Range(iters[i].yielded) : i \in IterIds}

\* the state half of the cache discipline
CacheDiscipline ==
    /\ \A p \in Paths : ctorCalls[p] <= 1
    /\ DOMAIN cache \subseteq Paths
    /\ \A p \in DOMAIN cache : cache[p] = NONE => ctorCalls[p] = 1
    /\ \A r \in AllYields : r.path \in DOMAIN cache /\ cache[r.path] = r
    /\ \A r1, r2 \in AllYields : r1.path = r2.path => r1 = r2

\* the step half: a written slot keeps its value, and a step that hands out a
\* record does not hand out one of a path that is marked excluded
CacheStep ==
    /\ \A p \in DOMAIN cache : p \in DOMAIN cache' /\ cache'[p] = cache[p]
    /\ \A i \in IterIds :
          Len(iters'[i].yielded) > Len(iters[i].yielded)
             => ~Excluded(iters'[i].yielded[Len(iters'[i].yielded)].path)

\* C21: over any sequence of iterations of one collection, abandoned and
\* interleaved ones included, the record constructor is invoked at most once per
\* path, a written cache slot (record or excluded marker) never changes, the
\* cache's keys are paths of the set fixed at construction, an excluded path is
\* not yielded by any later iteration, and every yield of a path returns the
\* same record object.
C21_CacheDiscipline ==
    /\ []CacheDiscipline
    /\ [][CacheStep]_vars

\* C21 witness: two generators advanced in interleaved steps, the first one
\* abandoned after it was handed the record the second one had constructed, the
\* second one run to the end past a path it marked excluded
C21_Witness ==
    /\ iters[1].status = "closed" /\ iters[1].built = {}
    /\ iters[2].status = "done" /\ iters[2].built = Paths
    /\ iters[2].after = {}
    /\ iters[1].yielded # <<>>
    /\ iters[1].yielded[1] = iters[2].yielded[1]
    /\ ctorCalls[iters[1].yielded[1].path] = 1
    /\ \E p \in Paths : Excluded(p) /\ ctorCalls[p] = 1

(***************************************************************************)
(* The embedded pipeline (lib.py, __main__.py).                            *)
(* Times are seconds on a short axis; Now is datetime.now() of the run.    *)
(***************************************************************************)
Times == {0, 1, 2}
Now == SetMax(Times)

PointValues == {Pt(t) : t \in Times} \cup {NaT}
PointSeqs == SeqsOf(PointValues, 0, MaxPoints)

\* the files under the tracks folder: one track of one segment with any samples,
\* a file of two tracks, a track of two segments, a file that does not decode
MainTrackFiles ==
    {TrackFile(TRUE, 1, 1, TRUE, ps) : ps \in PointSeqs}
    \cup { TrackFile(TRUE, 2, 1, TRUE, <<Pt(0), Pt(1)>>),
           TrackFile(TRUE, 1, 2, TRUE, <<Pt(0), Pt(1)>>),
           TrackFile(FALSE, 1, 1, TRUE, <<>>) }

\* os.walk order of the two folders
MainTrackPaths == <<[stem |-> "t1", ext |-> ".gpx"], [stem |-> "t2", ext |-> ".gpx"]>>
MainImagePaths == <<[stem |-> "p1", ext |-> ".NEF"], [stem |-> "p2", ext |-> ".NEF"]>>
NoPath == [stem |-> "", ext |-> ""]

\* An image file is [fname, exif]: what strptime makes of the first two tokens
\* of the stem (a time, ValueError, or IndexError when there is no second
\* token), and what the 'Image DateTime' tag parses to (a time, or KeyError).
FnameOk(t) == [kind |-> "ok", time |-> t]
ImageFileKinds ==
    {[fname |-> FnameOk(t), exif |-> [kind |-> "KeyError"]] : t \in Times}
    \cup { [fname |-> [kind |-> "ValueError"], exif |-> [kind |-> "ok", time |-> 1]],
           [fname |-> [kind |-> "ValueError"], exif |-> [kind |-> "KeyError"]] }

Raise(k) == [kind |-> "raise", value |-> [kind |-> k]]

\* lib.process_track
ProcessTrack(path, f) ==
    IF ~f.ok THEN Raise("ParseError")                  \* GPX.from_file
    ELSE IF f.ntrk # 1 THEN Raise("AssertionError")
    ELSE IF f.nseg # 1 THEN Raise("AssertionError")
    ELSE IF ValidTimes(f.points) = {} THEN Raise("ValueError")   \* min() of nothing
    ELSE [kind |-> "TrackData", path |-> path,
          points |-> [i \in 1..Len(f.points) |->
                        [timed |-> f.points[i].timed, time |-> f.points[i].time,
                         name |-> "", cmt |-> NoPath]],
          waypoints |-> <<>>,
          start |-> SetMin(ValidTimes(f.points)),
          end |-> SetMax(ValidTimes(f.points)),
          images |-> <<>>]

\* lib.get_image_date: the return in its finally clause swallows every exception
GetImageDate(path, f) ==
    [path |-> path,
     time |-> IF f.fname.kind = "ok" THEN f.fname.time
              ELSE IF f.fname.kind = "ValueError" /\ f.exif.kind = "ok" THEN f.exif.time
              ELSE Now]

\* list.sort(key=...): stable
RECURSIVE SortBy(_, _)
SortBy(K(_), s) ==
    IF s = <<>> THEN <<>>
    ELSE LET rest == SortBy(K, Take(s, Len(s) - 1))
             x == s[Len(s)]
             n == Cardinality({i \in 1..Len(rest) : K(rest[i]) <= K(x)})
         IN  Take(rest, n) \o <<x>> \o Drop(rest, n)

StartOf(t) == t.start
TimeOf(im) == im.time

\* mutant: the lower bound is exclusive
InRange_Exclusive(track, image) ==
    track.start < image.time /\ image.time <= track.end

\* __main__.py line 39: track.start <= image.time <= track.end
InRange(track, image) ==
    track.start <= image.time /\ image.time <= track.end

\* __main__.py lines 38-40: for image, track in itertools.product(...), pair n on
RECURSIVE AssignFrom(_, _, _)
AssignFrom(td, imgs, n) ==
    IF n > Len(imgs) * Len(td) THEN td
    ELSE LET i == ((n - 1) \div Len(td)) + 1
             k == ((n - 1) % Len(td)) + 1
         IN  AssignFrom(IF InRange(td[k], imgs[i])
                        THEN [td EXCEPT ![k].images = Append(@, imgs[i])]
                        ELSE td,
                        imgs, n + 1)

Sentinel == 999999

Abs(x) == IF x < 0 THEN 0 - x ELSE x

\* lib.py line 69: the key of a sample, a timedelta or the int 999999
WaypointKey(pt, image) ==
    IF pt.timed THEN [kind |-> "timedelta", v |-> Abs(pt.time - image.time)]
    ELSE [kind |-> "int", v |-> Sentinel]

\* mutant: a later sample replaces an equally near earlier one
KeyLess_OrEqual(a, b) == a.v <= b.v

\* key < key, for two keys of one type
KeyLess(a, b) == a.v < b.v

\* min(iterable, key=...): the scan keeps the first least key; comparing a
\* timedelta with an int raises TypeError
RECURSIVE MinScan(_, _, _)
MinScan(keys, best, i) ==
    IF i > Len(keys) THEN [kind |-> "ok", idx |-> best]
    ELSE IF keys[i].kind # keys[best].kind THEN [kind |-> "TypeError"]
    ELSE MinScan(keys, IF KeyLess(keys[i], keys[best]) THEN i ELSE best, i + 1)

\* lib.add_track_waypoints from image j on: the track with its samples relabelled
\* and its waypoints appended, or the exception that left the loop
RECURSIVE AddTrackWaypoints(_, _)
AddTrackWaypoints(track, j) ==
    IF j > Len(track.images) THEN [kind |-> "ok", track |-> track]
    ELSE LET image == track.images[j]
             r == MinScan([i \in 1..Len(track.points) |->
                              WaypointKey(track.points[i], image)], 1, 2)
         IN  IF r.kind # "ok" THEN [kind |-> "raise", value |-> r, track |-> track]
             ELSE AddTrackWaypoints(
                    [track EXCEPT !.points[r.idx].name = image.path.stem,
                                  !.points[r.idx].cmt = image.path,
                                  !.waypoints = Append(@, r.idx)], j + 1)

\* gpx.to_file: the waypoints as they are when the file is written
Serialize(track) ==
    [path |-> track.path,
     waypoints |-> [n \in 1..Len(track.waypoints) |->
                      LET pt == track.points[track.waypoints[n]] IN
                      [name |-> pt.name, cmt |-> pt.cmt, time |-> pt.time,
                       timed |-> pt.timed]]]

\* the files of the two folders are drawn when main reads them
MainInit ==
    /\ trackFiles = <<>>
    /\ imageFiles = <<>>
    /\ pc = [at |-> "start", k |-> 0]
    /\ track_data = <<>>
    /\ image_data = <<>>
    /\ written = <<>>
    /\ mainExc = [kind |-> "none"]

\* lines 30-32: track_data = list(map(process_track, track_files)); sort by start
MainReadTracks ==
    /\ pc.at = "start"
    /\ trackFiles' \in [1..Len(MainTrackPaths) -> MainTrackFiles]
    /\ LET made == [k \in 1..Len(MainTrackPaths) |->
                       ProcessTrack(MainTrackPaths[k], trackFiles'[k])]
           bad == {k \in 1..Len(made) : made[k].kind = "raise"}
       IN  IF bad # {}
           THEN /\ pc' = [at |-> "crashed", k |-> 0]
                /\ mainExc' = made[SetMin(bad)].value
                /\ UNCHANGED track_data
           ELSE /\ pc' = [at |-> "tracks", k |-> 0]
                /\ track_data' = SortBy(StartOf, made)
                /\ UNCHANGED mainExc
    /\ UNCHANGED <<imageFiles, image_data, written>>
    /\ MainFrame

\* lines 34-36: image_data = list(map(get_image_date, image_files)); sort by time
MainReadImages ==
    /\ pc.at = "tracks"
    /\ imageFiles' \in [1..Len(MainImagePaths) -> ImageFileKinds]
    /\ image_data' = SortBy(TimeOf, [k \in 1..Len(MainImagePaths) |->
                                        GetImageDate(MainImagePaths[k], imageFiles'[k])])
    /\ pc' = [at |-> "images", k |-> 0]
    /\ UNCHANGED <<trackFiles, track_data, written, mainExc>>
    /\ MainFrame

\* lines 38-42: the assignment loop, then os.makedirs
MainAssign ==
    /\ pc.at = "images"
    /\ track_data' = AssignFrom(track_data, image_data, 1)
    /\ pc' = [at |-> "write", k |-> 1]
    /\ UNCHANGED <<trackFiles, imageFiles, image_data, written, mainExc>>
    /\ MainFrame

\* the tracks the filter of line 44 still has to hand out
Pending == {k \in pc.k..Len(track_data) : Len(track_data[k].images) > 0}

\* lines 44-50: one turn of the loop over the tracks that have images
MainWriteTrack ==
    /\ pc.at = "write"
    /\ Pending # {}
    /\ LET k == SetMin(Pending)
           r == AddTrackWaypoints(track_data[k], 1)
       IN  /\ track_data' = [track_data EXCEPT ![k] = r.track]
           /\ IF r.kind = "ok"
              THEN /\ written' = Append(written, Serialize(r.track))
                   /\ pc' = [at |-> "write", k |-> k + 1]
                   /\ UNCHANGED mainExc
              ELSE /\ pc' = [at |-> "crashed", k |-> k]
                   /\ mainExc' = r.value
                   /\ UNCHANGED written
    /\ UNCHANGED <<trackFiles, imageFiles, image_data>>
    /\ MainFrame

\* the loop of line 44 is exhausted: main returns
MainFinish ==
    /\ pc.at = "write"
    /\ Pending = {}
    /\ pc' = [at |-> "done", k |-> 0]
    /\ UNCHANGED <<trackFiles, imageFiles, track_data, image_data, written, mainExc>>
    /\ MainFrame

MainNext ==
    \/ MainReadTracks
    \/ MainReadImages
    \/ MainAssign
    \/ MainWriteTrack
    \/ MainFinish

\* the state after construction: the other components are not in use
InitMain == MainInit /\ PhotoIdle /\ CollIdle /\ AppIdle /\ WalkIdle /\ TrackIdle /\ ViewsIdle /\ LibIdle

SpecMain ==
    /\ InitMain
    /\ [][MainNext]_vars

(***************************************************************************)
(* Claims about the embedded pipeline (SpecMain).                          *)
(***************************************************************************)
\* the assignment loop of main has run
Assigned == pc.at \in {"write", "done"} \/ (pc.at = "crashed" /\ pc.k > 0)

ImagesOf(k) == Range(track_data[k].images)

\* C7: after the assignment loop, the image list of every track holds exactly
\* the photos with track.start <= photo.time <= track.end (both bounds
\* inclusive, each track decided on its own), each once, in photo order.
C7_RangeBoundedAssignment ==
    Assigned =>
        \A k \in 1..Len(track_data) :
            LET Inside(im) == /\ track_data[k].start <= im.time
                              /\ im.time <= track_data[k].end
            IN  track_data[k].images = SelectSeq(image_data, Inside)

\* C7 witness: two overlapping tracks; a photo at exactly the start of one of
\* them is in the lists of both, and a photo one second before that start is
\* not in its list
C7_Witness ==
    /\ Assigned
    /\ \E k1, k2 \in 1..Len(track_data) : \E i1, i2 \in 1..Len(image_data) :
          /\ k1 # k2
          /\ image_data[i1].time = track_data[k2].start
          /\ image_data[i1] \in ImagesOf(k1) /\ image_data[i1] \in ImagesOf(k2)
          /\ image_data[i2].time = track_data[k2].start - 1
          /\ image_data[i2] \in ImagesOf(k1) /\ image_data[i2] \notin ImagesOf(k2)

Dist(k, i, n) == Abs(track_data[k].points[i].time - track_data[k].images[n].time)

Timed(k) == {i \in 1..Len(track_data[k].points) : track_data[k].points[i].timed}

\* C8: the sample chosen for a photo of a track is a timed sample, no timed
\* sample of the track is nearer in time to the photo, and no earlier sample of
\* the track is equally near.
C8_NearestSampleFirstWins ==
    \A k \in 1..Len(track_data) : \A n \in 1..Len(track_data[k].waypoints) :
        LET c == track_data[k].waypoints[n] IN
        /\ c \in Timed(k)
        /\ \A i \in Timed(k) : Dist(k, c, n) <= Dist(k, i, n)
        /\ \A i \in Timed(k) : i < c => Dist(k, c, n) < Dist(k, i, n)

\* C8 witness: a photo with two equally near samples got the earlier one
C8_Witness ==
    \E k \in 1..Len(track_data) : \E n \in 1..Len(track_data[k].waypoints) :
        LET c == track_data[k].waypoints[n] IN
        \E i \in Timed(k) : i > c /\ Dist(k, i, n) = Dist(k, c, n)

\* C9 as stated: on a segment that mixes timed and untimed samples the selection
\* completes normally (no exception leaves add_track_waypoints) and never picks
\* an untimed sample.
C9_UntimedCountsAsFar ==
    /\ mainExc.kind # "TypeError"
    /\ \A k \in 1..Len(track_data) : \A n \in 1..Len(track_data[k].waypoints) :
          track_data[k].waypoints[n] \in Timed(k)

(***************************************************************************)
(* locate_photos (app.py) over a TrackCollection and a PhotoCollection.    *)
(***************************************************************************)
AppTrackPaths == <<[stem |-> "t1", ext |-> ".gpx"], [stem |-> "t2", ext |-> ".gpx"]>>
AppPhotoPaths == <<[stem |-> "p1", ext |-> ".jpg"], [stem |-> "p2", ext |-> ".jpg"]>>

\* the files under the tracks folder: as in the pipeline, and a file whose
\* track_points layer has no time column
AppTrackFiles == MainTrackFiles \cup {TrackFile(TRUE, 1, 1, FALSE, <<NaT>>)}

\* what Photo.time does on a photo: a time, None, or ValueError
AppPhotoKinds ==
    {[kind |-> "return", value |-> [kind |-> "time", t |-> t]] : t \in Times}
    \cup {[kind |-> "return", value |-> NONE], Raise("ValueError")}

\* a whole pass of FileCollection.__iter__ from position j: the records yielded
\* and the cache it leaves
RECURSIVE IterateAll(_, _, _, _, _)
IterateAll(order, f, st, j, acc) ==
    LET r == Advance(order, f, st, j) IN
    IF r.out.kind = "yield"
    THEN IterateAll(order, f, [cache |-> r.cache, calls |-> r.calls, built |-> r.built],
                    r.pos, Append(acc, r.out.item))
    ELSE [items |-> acc, cache |-> r.cache, out |-> r.out]

\* pd.concat of track.gdf.assign(track_path=str(track)) over the tracks: one row
\* per sample, its position named by the track and the sample's place in it
RECURSIVE ConcatRows(_)
ConcatRows(items) ==
    IF items = <<>> THEN <<>>
    ELSE LET it == items[1] IN
         [i \in 1..Len(it.gdf) |->
            [timed |-> it.gdf[i].timed, time |-> it.gdf[i].time,
             track_path |-> it.path, geometry |-> <<it.path.stem, i>>]]
         \o ConcatRows(Tail(items))

\* sort_values("time"): rows without a time go last
RowKey(r) == IF r.timed THEN r.time ELSE Now + 1

\* TrackCollection.gdf: pd.concat raises ValueError when no track is yielded.
\* f maps the place of a path in AppTrackPaths to its file.
TrackCollectionGdf(f, c) ==
    LET byPath == [p \in Range(AppTrackPaths) |->
                      f[CHOOSE k \in 1..Len(AppTrackPaths) : AppTrackPaths[k] = p]]
        run == IterateAll(AppTrackPaths, byPath,
                          [cache |-> c, calls |-> [p \in Range(AppTrackPaths) |-> 0],
                           built |-> {}], 1, <<>>)
    IN  IF run.items = <<>>
        THEN [kind |-> "raise", value |-> ValueError, cache |-> run.cache]
        ELSE [kind |-> "return", cache |-> run.cache,
              rows |-> SortBy(RowKey, ConcatRows(run.items))]

IsTimedRow(r) == r.timed

\* TrackCollection.gdf_with_time
GdfWithTime(rows) == SelectSeq(rows, IsTimedRow)

\* PhotoCollection.df_with_time: ValueError when Photo.time of a photo raises,
\* else the rows with a time, sorted by time
PhotoHasTime(p) == p.time.value.kind = "time"
PhotoRowKey(p) == p.time.value.t
DfWithTime(photos) ==
    IF \E i \in 1..Len(photos) : photos[i].time.kind = "raise"
    THEN Raise("ValueError")
    ELSE [kind |-> "return",
          rows |-> SortBy(PhotoRowKey, SelectSeq(photos, PhotoHasTime))]

\* pd.merge_asof(direction="nearest") for one left key: the last right row at or
\* before it, the first right row at or after it, the nearer of the two, and the
\* row before on a tie; 0 when the right table is empty
Backward(rows, t) ==
    LET S == {i \in 1..Len(rows) : rows[i].time <= t}
    IN  IF S = {} THEN 0 ELSE SetMax(S)
Forward(rows, t) ==
    LET S == {i \in 1..Len(rows) : rows[i].time >= t}
    IN  IF S = {} THEN 0 ELSE SetMin(S)

\* mutant: a backward-only join
AsofNearest_Backward(rows, t) == Backward(rows, t)

AsofNearest(rows, t) ==
    LET b == Backward(rows, t)
        f == Forward(rows, t)
    IN  IF b # 0 /\ f # 0
        THEN (IF t - rows[b].time <= rows[f].time - t THEN b ELSE f)
        ELSE IF b # 0 THEN b ELSE f

NoMatch == [timed |-> FALSE, time |-> 0, track_path |-> NoPath, geometry |-> <<"", 0>>]

\* app.locate_photos: the outcomes it can have. With no timed sample at all the
\* join has nothing to match and the frame is built over an all-null geometry
\* column: the rows without a position, or an exception of the libraries.
LocatePhotos(f, c, photos) ==
    LET left == DfWithTime(photos) IN
    IF left.kind = "raise" THEN {[kind |-> "raise", value |-> left.value, cache |-> c]}
    ELSE LET g == TrackCollectionGdf(f, c) IN
         IF g.kind = "raise" THEN {g}
         ELSE LET right == GdfWithTime(g.rows) IN
              {[kind |-> "return", cache |-> g.cache,
                rows |-> [n \in 1..Len(left.rows) |->
                            LET m == AsofNearest(right, left.rows[n].time.value.t) IN
                            [photo_src |-> left.rows[n].path,
                             time |-> left.rows[n].time.value.t,
                             match |-> IF m = 0 THEN NoMatch ELSE right[m]]]]}
              \cup (IF right = <<>> /\ left.rows # <<>>
                    THEN {[kind |-> "raise", value |-> [kind |-> "TypeError"],
                           cache |-> g.cache]}
                    ELSE {})

\* the photo collection holds the first n of the photo paths
AppInit ==
    /\ appTracks \in [1..Len(AppTrackPaths) -> AppTrackFiles]
    /\ \E n \in 0..Len(AppPhotoPaths) : \E ts \in [1..n -> AppPhotoKinds] :
          appPhotos = [i \in 1..n |-> [path |-> AppPhotoPaths[i], time |-> ts[i]]]
    /\ appCache = <<>>
    /\ appResult = [kind |-> "idle"]

AppLocate ==
    /\ appResult.kind = "idle"
    /\ \E r \in LocatePhotos(appTracks, appCache, appPhotos) :
          /\ appCache' = r.cache
          /\ appResult' = IF r.kind = "return"
                          THEN [kind |-> "return", rows |-> r.rows]
                          ELSE [kind |-> "raise", value |-> r.value]
    /\ UNCHANGED <<appTracks, appPhotos>>
    /\ AppFrame

AppNext == AppLocate

\* the state after construction: the other components are not in use
InitApp == AppInit /\ PhotoIdle /\ CollIdle /\ MainIdle /\ WalkIdle /\ TrackIdle /\ ViewsIdle /\ LibIdle

SpecApp ==
    /\ InitApp
    /\ [][AppNext]_vars

(***************************************************************************)
(* Claims on locate_photos.                                                *)
(***************************************************************************)
\* the files of the collection that Track accepts, and their timed samples
AcceptedTracks == {k \in 1..Len(appTracks) : TrackInit(appTracks[k]).kind = "Track"}
TimedSamples ==
    {<<k, i>> \in (1..Len(appTracks)) \X (1..MaxPoints + 1) :
        /\ k \in AcceptedTracks
        /\ i <= Len(appTracks[k].points)
        /\ appTracks[k].points[i].timed}
SampleTime(s) == appTracks[s[1]].points[s[2]].time
TimedPhotos ==
    {i \in 1..Len(appPhotos) :
        appPhotos[i].time.kind = "return" /\ appPhotos[i].time.value.kind = "time"}
RowsOf(i) == {n \in 1..Len(appResult.rows) : appResult.rows[n].photo_src = appPhotos[i].path}
OutsideEverySpan(t) ==
    \A k \in AcceptedTracks :
        LET T == {SampleTime(s) : s \in {x \in TimedSamples : x[1] = k}}
        IN  T = {} \/ t < SetMin(T) \/ t > SetMax(T)

AllSampleTimes == {SampleTime(s) : s \in TimedSamples}
OutsideOverallRange(t) == t < SetMin(AllSampleTimes) \/ t > SetMax(AllSampleTimes)

\* C11 as stated: when the time of every photo lies outside the overall time
\* range of the track samples, the result of locate_photos has zero rows.
C11_OutOfRangeNotLocated ==
    ( /\ appResult.kind = "return"
      /\ AllSampleTimes # {}
      /\ \A i \in TimedPhotos : OutsideOverallRange(appPhotos[i].time.value.t) )
        => appResult.rows = <<>>

(***************************************************************************)
(* Further claims about the embedded pipeline (SpecMain).                  *)
(***************************************************************************)
\* the track of track_data a written file was made from
TrackOfOutput(n) == CHOOSE k \in 1..Len(track_data) : track_data[k].path = written[n].path

\* C12 as stated: a written track with k assigned photos holds exactly k
\* waypoints, the n-th labelled with the stem and annotated with the path of the
\* n-th assigned photo, also when several photos share their nearest sample.
C12_OneOwnWaypointPerPhoto ==
    \A n \in 1..Len(written) :
        LET images == track_data[TrackOfOutput(n)].images
            wps == written[n].waypoints
        IN  /\ Len(wps) = Len(images)
            /\ \A j \in 1..Len(images) :
                  /\ wps[j].name = images[j].path.stem
                  /\ wps[j].cmt = images[j].path

\* the image files whose time get_image_date cannot read: neither the filename
\* nor the tag gives one
UnresolvedImages ==
    {k \in 1..Len(imageFiles) :
        imageFiles[k].fname.kind # "ok" /\ imageFiles[k].exif.kind # "ok"}

\* C13 as stated, embedded pipeline: a photo whose time cannot be resolved is
\* added to no track's image list and produces no waypoint.
C13_UnresolvedNeverMatched ==
    \A u \in UnresolvedImages : \A k \in 1..Len(track_data) :
        /\ \A n \in 1..Len(track_data[k].images) :
              track_data[k].images[n].path # MainImagePaths[u]
        /\ \A i \in 1..Len(track_data[k].points) :
              track_data[k].points[i].cmt # MainImagePaths[u]

(***************************************************************************)
(* FileCollection over a folder tree (collection.py): __init__,            *)
(* _populate_paths and one pass of __iter__ with Path as the path class.   *)
(* A file name is its sequence of characters.                              *)
(***************************************************************************)
\* the folders under the root, each named by its path from the root
Dirs == {<<>>, <<"sub">>, <<"sub", "deep">>}

FileNames ==
    { <<"a", ".", "j">>, <<"a", ".", "J">>, <<"a", ".", "t">>,
      <<"a", "j">>, <<".", "j", "a">> }

AllFiles == {[dir |-> d, name |-> n] : d \in Dirs, n \in FileNames}

\* the filter_extensions argument: None, a str, or a list of str
FilterArgs ==
    { NONE,
      [kind |-> "str", v |-> <<".", "j">>],
      [kind |-> "str", v |-> <<".", "J">>],
      [kind |-> "list", v |-> <<<<".", "j">>, <<".", "t">>>>],
      [kind |-> "list", v |-> <<<<".", "T">>>>],
      [kind |-> "list", v |-> <<>>] }

\* __init__ lines 19-25: the match statement
NormalizeFilter(arg) ==
    IF arg.kind = "None" THEN NONE
    ELSE IF arg.kind = "str" THEN [kind |-> "list", v |-> <<arg.v>>]
    ELSE arg

\* mutant: the comparison keeps the case
LowerChar_Keep(c) == c

\* str.lower(), character by character
LowerChar(c) ==
    CASE c = "J" -> "j"
      [] c = "T" -> "t"
      [] c = "A" -> "a"
      [] OTHER -> c

Lower(w) == [i \in 1..Len(w) |-> LowerChar(w[i])]

\* str.endswith
EndsWith(w, suffix) ==
    /\ Len(suffix) <= Len(w)
    /\ SubSeq(w, Len(w) - Len(suffix) + 1, Len(w)) = suffix

\* line 38-40: the test a file name has to pass
Passes(flt, file) ==
    \/ flt = NONE
    \/ /\ flt # NONE
       /\ \E k \in 1..Len(flt.v) : EndsWith(Lower(file), Lower(flt.v[k]))

\* os.walk(top): (root, files) of top and of every folder below it, top down
RECURSIVE OsWalk(_, _)
OsWalk(t, top) ==
    LET here == {f.name : f \in {g \in t : g.dir = top}}
        subs == {d \in Dirs : Len(d) = Len(top) + 1 /\ SubSeq(d, 1, Len(top)) = top}
        below == UNION {OsWalk(t, d) : d \in subs}
    IN  {[root |-> top, files |-> here]} \cup below

\* _populate_paths: the set self._paths
PopulatePaths(t, flt) ==
    UNION {{[dir |-> w.root, name |-> file] : file \in {n \in w.files : Passes(flt, n)}}
              : w \in OsWalk(t, <<>>)}

\* the orders in which a for loop may visit a set
Orders(S) == {o \in [1..Cardinality(S) -> S] : Range(o) = S}

WalkInit ==
    /\ tree \in {t \in SUBSET AllFiles : Cardinality(t) <= MaxFiles}
    /\ filter_extensions \in FilterArgs
    /\ walkPaths = [kind |-> "unset"]
    /\ walkYield = <<>>

\* FileCollection.__init__
Construct ==
    /\ walkPaths.kind = "unset"
    /\ walkPaths' = [kind |-> "set",
                     v |-> PopulatePaths(tree, NormalizeFilter(filter_extensions))]
    /\ UNCHANGED <<tree, filter_extensions, walkYield>>
    /\ WalkFrame

\* list(collection): Path(path) never fails, every path of _paths is yielded
IteratePass ==
    /\ walkPaths.kind = "set"
    /\ walkYield' \in Orders(walkPaths.v)
    /\ walkPaths' = [walkPaths EXCEPT !.kind = "listed"]
    /\ UNCHANGED <<tree, filter_extensions>>
    /\ WalkFrame

WalkNext == Construct \/ IteratePass

\* the state after construction: the other components are not in use
InitWalk == WalkInit /\ PhotoIdle /\ CollIdle /\ MainIdle /\ AppIdle /\ TrackIdle /\ ViewsIdle /\ LibIdle

SpecWalk ==
    /\ InitWalk
    /\ [][WalkNext]_vars

(***************************************************************************)
(* Claims about the enumeration (SpecWalk).                                *)
(***************************************************************************)
CasePairs == {{"a", "A"}, {"j", "J"}, {"t", "T"}}
SameLetter(a, b) == a = b \/ {a, b} \in CasePairs

\* the name ends with the extension, letter case aside
HasExtension(name, ext) ==
    /\ Len(ext) <= Len(name)
    /\ \A i \in 1..Len(ext) : SameLetter(name[Len(name) - Len(ext) + i], ext[i])

\* the extensions the collection was asked for
Wanted ==
    IF filter_extensions.kind = "str" THEN {filter_extensions.v}
    ELSE IF filter_extensions.kind = "list" THEN Range(filter_extensions.v)
    ELSE {}

Expected ==
    {f \in tree : filter_extensions = NONE \/ \E e \in Wanted : HasExtension(f.name, e)}

\* C14: a pass over the collection yields every file under the root, at any
\* depth, whose name ends with one of the filter extensions compared without
\* regard to case (every file when there is no filter), yields no other file,
\* and yields each path exactly once.
C14_EnumeratesMatchingFilesOnce ==
    walkPaths.kind = "listed" =>
        /\ Range(walkYield) = Expected
        /\ Len(walkYield) = Cardinality(Expected)

\* C14 witness: under a lower-case filter a pass yielded an upper-case match
\* from the deepest folder and left out a file of the tree
C14_Witness ==
    /\ walkPaths.kind = "listed"
    /\ filter_extensions = [kind |-> "str", v |-> <<".", "j">>]
    /\ [dir |-> <<"sub", "deep">>, name |-> <<"a", ".", "J">>] \in Range(walkYield)
    /\ Range(walkYield) # tree

(***************************************************************************)
(* Further claims about Photo.time (SpecPhoto).                            *)
(***************************************************************************)
\* the tag reads YYYY:MM:DD HH:MM:SS and names a date and a time that exist
StrictTag(tag) ==
    /\ tag.sep
    /\ Len(tag.f[1]) = 4 /\ IsDigits(tag.f[1])
    /\ \A i \in 2..6 : Len(tag.f[i]) = 2 /\ IsDigits(tag.f[i])
    /\ ValidDateTime(NumOf(tag.f[1]), 10 * tag.f[2][1] + tag.f[2][2],
                     10 * tag.f[3][1] + tag.f[3][2], 10 * tag.f[4][1] + tag.f[4][2],
                     10 * tag.f[5][1] + tag.f[5][2], 10 * tag.f[6][1] + tag.f[6][2])

\* the tag's literal value, read off digit by digit
LiteralTagTime(tag) ==
    [kind |-> "time",
     Y |-> 1000 * tag.f[1][1] + 100 * tag.f[1][2] + 10 * tag.f[1][3] + tag.f[1][4],
     m |-> 10 * tag.f[2][1] + tag.f[2][2], d |-> 10 * tag.f[3][1] + tag.f[3][2],
     H |-> 10 * tag.f[4][1] + tag.f[4][2], M |-> 10 * tag.f[5][1] + tag.f[5][2],
     S |-> 10 * tag.f[6][1] + tag.f[6][2], tz |-> "Europe/Madrid"]

\* C15: for a photo whose filename does not parse under the filename convention
\* and whose 'Image DateTime' tag reads YYYY:MM:DD HH:MM:SS, Photo.time is the
\* tag's date and time of day, unchanged, with the zone Europe/Madrid attached.
C15_TagFallbackKeepsWallClock ==
    ( /\ TimeWasRead
      /\ FilenameTime(photo.stem) = NONE
      /\ photo.exif.kind = "tag" /\ StrictTag(photo.exif.value) )
        => lastTime = [kind |-> "return", value |-> LiteralTagTime(photo.exif.value)]

\* C15 witness: DSC.jpg with the tag 2024:12:31 23:59:59, resolved to
\* 2024-12-31 23:59:59 Europe/Madrid
C15_Witness ==
    /\ photo.stem = << <<X, X, X>> >>
    /\ photo.exif.kind = "tag"
    /\ lastTime = [kind |-> "return", value |->
          [kind |-> "time", Y |-> 2024, m |-> 12, d |-> 31, H |-> 23, M |-> 59,
           S |-> 59, tz |-> "Europe/Madrid"]]

(***************************************************************************)
(* One Track (track.py): __init__ and the cached property time_range.      *)
(* The times of a GPX file either all name a zone (2025-01-26T10:29:00Z)   *)
(* or none does (2025-01-26T10:29:00); the machine's zone is UTC or one    *)
(* hour ahead.                                                             *)
(***************************************************************************)
UtcOffsets == {0, 1}

TrackInit0 ==
    /\ trkFile \in AppTrackFiles
    /\ trkAware \in BOOLEAN
    /\ utcoffset \in UtcOffsets
    /\ trk = [kind |-> "unset"]
    /\ trkRange = [kind |-> "unread"]

\* Track(path)
TrackConstruct ==
    /\ trk.kind = "unset"
    /\ trk' = TrackInit(trkFile)
    /\ UNCHANGED <<trkFile, trkAware, utcoffset, trkRange>>
    /\ TrackFrame

\* track.time_range, not yet stored: a raised ValueError is not stored
TimeRangeFirstRead ==
    /\ trk.kind = "Track"
    /\ trkRange.kind \in {"unread", "ValueError"}
    /\ trkRange' = TimeRangeAt(trk.gdf, trkAware, utcoffset)
    /\ UNCHANGED <<trkFile, trkAware, utcoffset, trk>>
    /\ TrackFrame

\* track.time_range, stored: the stored tuple again
TimeRangeCachedRead ==
    /\ trkRange.kind = "range"
    /\ trkRange' = [trkRange EXCEPT !.kind = "range"]
    /\ UNCHANGED <<trkFile, trkAware, utcoffset, trk>>
    /\ TrackFrame

TrackNext == TrackConstruct \/ TimeRangeFirstRead \/ TimeRangeCachedRead

\* the state after construction: the other components are not in use
InitTrack == TrackInit0 /\ PhotoIdle /\ CollIdle /\ MainIdle /\ AppIdle /\ WalkIdle /\ ViewsIdle /\ LibIdle

SpecTrack ==
    /\ InitTrack
    /\ [][TrackNext]_vars

\* C16 as stated: time_range is (minimum, maximum) over the non-null sample
\* times of the track, whatever the order of the samples, so start <= end; a
\* track without a timed sample gives ValueError instead of a range.
C16_RangeIsMinMax ==
    trkRange.kind # "unread" =>
        IF ValidTimes(trk.gdf) = {} THEN trkRange = ValueError
        ELSE /\ trkRange.kind = "range"
             /\ trkRange.start = SetMin(ValidTimes(trk.gdf))
             /\ trkRange.end = SetMax(ValidTimes(trk.gdf))
             /\ trkRange.start <= trkRange.end

(***************************************************************************)
(* Further claims on locate_photos (SpecApp).                              *)
(***************************************************************************)
\* the merged, time-sorted table of the timed samples of all tracks
MergedTable == GdfWithTime(TrackCollectionGdf(appTracks, <<>>).rows)

\* C17 as stated: when the time of a photo is equally far from two samples of
\* the merged table and no sample is nearer, the photo is matched to the one of
\* them that comes earlier in the merged table.
C17_TieGoesToEarlier ==
    appResult.kind = "return" =>
        \A n \in 1..Len(appResult.rows) :
            LET row == appResult.rows[n] IN
            row.match.timed =>
                \A u \in 1..Len(MergedTable) :
                    Abs(MergedTable[u].time - row.time) = Abs(row.match.time - row.time)
                       => \E c \in 1..u : MergedTable[c] = row.match

(***************************************************************************)
(* Propagation of per-file failures in the embedded pipeline (SpecMain).   *)
(***************************************************************************)
\* the exceptions process_track raises on a file it cannot decode or accept
PerFileFailures == {"ParseError", "AssertionError", "ValueError"}

\* C18 as stated: a track file that fails decoding or structural validation
\* does not end main; it is left out and the run goes on over the other files.
C18_PerFileFailureNeverEndsRun ==
    /\ mainExc.kind \notin PerFileFailures
    /\ pc.at = "done" =>
          \A k \in 1..Len(track_data) :
              Len(track_data[k].images) > 0
                 => \E n \in 1..Len(written) : written[n].path = track_data[k].path

(***************************************************************************)
(* The views of a PhotoCollection (photo.py): iteration, sorted_photos,    *)
(* df, df_with_time, df_without_time. A photo is [path, time], time being  *)
(* what Photo.time does on it.                                             *)
(***************************************************************************)
ViewNames == {"iter", "sorted_photos", "df", "df_with_time", "df_without_time"}

SomeTimeRaises(ps) == \E i \in 1..Len(ps) : ps[i].time.kind = "raise"

\* sort_values("time") puts the rows without a time last
DfRowKey(p) == IF p.time.value.kind = "time" THEN p.time.value.t ELSE Now + 1

\* PhotoCollection.df: reads Photo.time of every photo
Df(ps) ==
    IF SomeTimeRaises(ps) THEN Raise("ValueError")
    ELSE [kind |-> "return", rows |-> SortBy(DfRowKey, ps)]

\* mutant: no row counts as one without a time
IsNa_Never(p) == FALSE

\* Series.isna() on the time column
IsNa(p) == p.time.value = NONE

\* PhotoCollection.df_without_time
DfWithoutTime(ps) ==
    IF SomeTimeRaises(ps) THEN Raise("ValueError")
    ELSE [kind |-> "return", rows |-> SelectSeq(Df(ps).rows, IsNa)]

\* PhotoCollection.sorted_photos
SortedPhotos(ps) ==
    IF SomeTimeRaises(ps) THEN Raise("ValueError")
    ELSE [kind |-> "return", rows |-> SortBy(PhotoRowKey, SelectSeq(ps, PhotoHasTime))]

\* list(collection): Photo(path) reads nothing of the file
IterPhotos(ps) == [kind |-> "return", rows |-> ps]

ViewOf(name, ps) ==
    CASE name = "iter" -> IterPhotos(ps)
      [] name = "sorted_photos" -> SortedPhotos(ps)
      [] name = "df" -> Df(ps)
      [] name = "df_with_time" -> DfWithTime(ps)
      [] OTHER -> DfWithoutTime(ps)

ViewsInit ==
    /\ \E n \in 0..Len(AppPhotoPaths) : \E ts \in [1..n -> AppPhotoKinds] :
          photoColl = [i \in 1..n |-> [path |-> AppPhotoPaths[i], time |-> ts[i]]]
    /\ views = [v \in ViewNames |-> [kind |-> "unread"]]

\* one of the views is read
ReadView(name) ==
    /\ views[name].kind = "unread"
    /\ views' = [views EXCEPT ![name] = ViewOf(name, photoColl)]
    /\ UNCHANGED photoColl
    /\ ViewsFrame

ViewsNext == \E name \in ViewNames : ReadView(name)

\* the state after construction: the other components are not in use
InitViews == ViewsInit /\ PhotoIdle /\ CollIdle /\ MainIdle /\ AppIdle /\ WalkIdle /\ TrackIdle /\ LibIdle

SpecViews ==
    /\ InitViews
    /\ [][ViewsNext]_vars

(***************************************************************************)
(* Claims about the views (SpecViews).                                     *)
(***************************************************************************)
Returned(name) == views[name].kind = "return"
RowsOfView(name) == Range(views[name].rows)
NoneTimed == {p \in Range(photoColl) : p.time.kind = "return" /\ p.time.value = NONE}
WithTime == {p \in Range(photoColl) : p.time.kind = "return" /\ p.time.value # NONE}
NonDecreasing(rows) ==
    \A i, j \in 1..Len(rows) : i < j => rows[i].time.value.t <= rows[j].time.value.t

\* C19: of every view that was read and returned: the iteration and df hold
\* every photo, also those whose time is None; sorted_photos and df_with_time
\* hold exactly the photos with a time; df_with_time and df_without_time share no
\* row and together hold the rows of df; sorted_photos is in non-decreasing time
\* order and as long as the full listing when every photo has a time.
C19_TimeIndexedViews ==
    /\ Returned("iter") =>
          RowsOfView("iter") = Range(photoColl) /\ Len(views["iter"].rows) = Len(photoColl)
    /\ Returned("df") =>
          RowsOfView("df") = Range(photoColl) /\ Len(views["df"].rows) = Len(photoColl)
    /\ Returned("sorted_photos") =>
          /\ RowsOfView("sorted_photos") = WithTime
          /\ Len(views["sorted_photos"].rows) = Cardinality(WithTime)
          /\ NonDecreasing(views["sorted_photos"].rows)
          /\ NoneTimed = {} => Len(views["sorted_photos"].rows) = Len(photoColl)
    /\ Returned("df_with_time") =>
          /\ RowsOfView("df_with_time") = WithTime
          /\ Len(views["df_with_time"].rows) = Cardinality(WithTime)
    /\ Returned("df_without_time") =>
          /\ RowsOfView("df_without_time") = NoneTimed
          /\ Len(views["df_without_time"].rows) = Cardinality(NoneTimed)
    /\ (Returned("df") /\ Returned("df_with_time") /\ Returned("df_without_time")) =>
          /\ RowsOfView("df_with_time") \cap RowsOfView("df_without_time") = {}
          /\ RowsOfView("df_with_time") \cup RowsOfView("df_without_time") = RowsOfView("df")

\* C19 witness: every view was read of a collection of a photo without a time
\* and a photo with one; the first is in df and df_without_time only
C19_Witness ==
    /\ \A name \in ViewNames : Returned(name)
    /\ Cardinality(NoneTimed) = 1 /\ Cardinality(WithTime) = 1
    /\ NoneTimed \subseteq RowsOfView("df")
    /\ NoneTimed = RowsOfView("df_without_time")
    /\ NoneTimed \cap RowsOfView("sorted_photos") = {}

(***************************************************************************)
(* Claims about the compressed filename (SpecPhoto).                       *)
(***************************************************************************)
\* C20 as stated: for a photo whose time is not None, from_compressed_filename
\* of its compressed_filename returns the photo's path and the photo's time
\* (whole seconds, Europe/Madrid); for a photo whose time is None,
\* compressed_filename is the filename stem.
C20_CompressedRoundTrip ==
    /\ (compressed.kind = "return" /\ timeCache.value = NONE)
          => compressed.value = [kind |-> "stem", stem |-> photo.stem]
    /\ (decoded.kind # "unread" /\ timeCache.value # NONE)
          => decoded = [kind |-> "return", time |-> timeCache.value, path |-> photo.stem]

(***************************************************************************)
(* get_files_with_extension (lib.py), as main() uses it for the tracks     *)
(* folder and for the images folder (SpecLib).                             *)
(* A folder is the sequence of names that leads to it from the folder main *)
(* is given, which is <<>>; a file is [dir, name], its name a sequence of   *)
(* characters.                                                             *)
(***************************************************************************)
LibFolders == {<<>>, <<"sub">>, <<"sub", "deep">>, <<"other">>}

\* the trees of folders: the given folder exists (click.Path(exists=True)),
\* and so does the parent of every folder
LibTrees ==
    {ds \in SUBSET LibFolders :
        /\ <<>> \in ds
        /\ \A d \in ds : d # <<>> => SubSeq(d, 1, Len(d) - 1) \in ds}

Gpx == <<".", "g", "p", "x">>
Nef == <<".", "N", "E", "F">>

\* a.gpx, a.GPX, a.NEF, a.nef, gpx, a.gpx.b
LibFileNames ==
    { <<"a">> \o Gpx, <<"a", ".", "G", "P", "X">>,
      <<"a">> \o Nef, <<"a", ".", "n", "e", "f">>,
      <<"g", "p", "x">>, <<"a">> \o Gpx \o <<".", "b">> }

\* the folders directly inside top
Subfolders(ds, top) ==
    {d \in ds : Len(d) = Len(top) + 1 /\ SubSeq(d, 1, Len(top)) = top}

\* os.walk(folder), top down: (path, contents, folder_files) of the folder,
\* then the walk of every folder of contents in turn. The order of the entries
\* of one folder is the order the file system lists them in, which is any.
RECURSIVE LibWalk(_, _, _)
RECURSIVE LibWalkEach(_, _, _)
LibWalk(ds, fs, top) ==
    LET here == {f.name : f \in {g \in fs : g.dir = top}} IN
    UNION { UNION { { <<[path |-> top, contents |-> c, folder_files |-> ff]>> \o rest
                        : rest \in LibWalkEach(ds, fs, c) }
                    : ff \in Orders(here) }
            : c \in Orders(Subfolders(ds, top)) }

LibWalkEach(ds, fs, c) ==
    IF c = <<>> THEN {<<>>}
    ELSE {a \o b : a \in LibWalk(ds, fs, c[1]), b \in LibWalkEach(ds, fs, Tail(c))}

\* mutant: every folder's files are looked at
NoContents_Any(contents) == TRUE

\* line 21: len(contents) == 0
NoContents(contents) == Len(contents) = 0

\* lines 22-24: the files of one folder that end with the extension, as paths
RECURSIVE YieldFolder(_, _, _)
YieldFolder(path, folder_files, extension) ==
    IF folder_files = <<>> THEN <<>>
    ELSE (IF EndsWith(folder_files[1], extension)
          THEN <<[dir |-> path, name |-> folder_files[1]]>> ELSE <<>>)
         \o YieldFolder(path, Tail(folder_files), extension)

\* lines 20-24 over the triples os.walk gives: everything the generator yields
RECURSIVE YieldWalk(_, _)
YieldWalk(walk, extension) ==
    IF walk = <<>> THEN <<>>
    ELSE (IF NoContents(walk[1].contents)
          THEN YieldFolder(walk[1].path, walk[1].folder_files, extension)
          ELSE <<>>)
         \o YieldWalk(Tail(walk), extension)

\* get_files_with_extension(folder, extension), consumed to the end
GetFilesWithExtension(ds, fs, extension) ==
    {YieldWalk(w, extension) : w \in LibWalk(ds, fs, <<>>)}

\* the subsets of S of at most n elements
RECURSIVE UpTo(_, _)
UpTo(S, n) ==
    IF n = 0 THEN {{}}
    ELSE LET smaller == UpTo(S, n - 1) IN
         smaller \cup {fs \cup {x} : fs \in smaller, x \in S}

LibInit ==
    /\ libDirs \in LibTrees
    /\ libFiles \in UpTo({[dir |-> d, name |-> n] : d \in libDirs, n \in LibFileNames},
                          MaxEntries)
    /\ libListing = [kind |-> "unset"]

\* main lines 30-31: the tree is the tracks folder
ListTrackFiles ==
    /\ libListing.kind = "unset"
    /\ \E out \in GetFilesWithExtension(libDirs, libFiles, Gpx) :
          libListing' = [kind |-> "listed", extension |-> Gpx, files |-> out]
    /\ UNCHANGED <<libDirs, libFiles>>
    /\ LibFrame

\* main lines 34-35: the tree is the images folder
ListImageFiles ==
    /\ libListing.kind = "unset"
    /\ \E out \in GetFilesWithExtension(libDirs, libFiles, Nef) :
          libListing' = [kind |-> "listed", extension |-> Nef, files |-> out]
    /\ UNCHANGED <<libDirs, libFiles>>
    /\ LibFrame

LibNext == ListTrackFiles \/ ListImageFiles

\* the state after construction: the other components are not in use
InitLib == LibInit /\ PhotoIdle /\ CollIdle /\ MainIdle /\ AppIdle /\ WalkIdle /\ TrackIdle /\ ViewsIdle

SpecLib ==
    /\ InitLib
    /\ [][LibNext]_vars

(***************************************************************************)
(* Claims about get_files_with_extension (SpecLib).                        *)
(***************************************************************************)
\* the last characters of the name are the characters of the extension, each
\* in the same case
ExactSuffix(name, extension) ==
    /\ Len(name) >= Len(extension)
    /\ \A k \in 1..Len(extension) :
          name[Len(name) - Len(extension) + k] = extension[k]

\* the folder that directly holds the file has a folder inside it
BesideFolders(f) ==
    \E d \in libDirs : Len(d) = Len(f.dir) + 1 /\ SubSeq(d, 1, Len(f.dir)) = f.dir

\* C22: a file is yielded if and only if its name ends with the given
\* extension in exact case and the folder that directly holds it has no
\* subfolders; a matching file beside a subfolder is not yielded, nor is a file
\* whose extension differs only in case; nothing but files of the tree is
\* yielded.
C22_LeafFoldersExactCase ==
    libListing.kind = "listed"
        => /\ Range(libListing.files) \subseteq libFiles
           /\ \A f \in libFiles :
                 (f \in Range(libListing.files))
                    <=> (ExactSuffix(f.name, libListing.extension) /\ ~BesideFolders(f))

\* C22 witness: the tracks folder has a subfolder; a.gpx directly in the
\* tracks folder is not yielded, a.GPX in the subfolder is not yielded, a.gpx
\* in the subfolder is
C22_Witness ==
    /\ libListing.kind = "listed" /\ libListing.extension = Gpx
    /\ libDirs = {<<>>, <<"sub">>}
    /\ libFiles = { [dir |-> <<>>, name |-> <<"a">> \o Gpx],
                    [dir |-> <<"sub">>, name |-> <<"a", ".", "G", "P", "X">>],
                    [dir |-> <<"sub">>, name |-> <<"a">> \o Gpx] }
    /\ libListing.files = <<[dir |-> <<"sub">>, name |-> <<"a">> \o Gpx]>>

====
